---- MODULE Spec2Model ----
(***************************************************************************)
(* Session state machine of the Repository Chat Assistant                  *)
(* (backend/python-api/streamlit_app.py).                                  *)
(*                                                                         *)
(* The Streamlit script is executed top to bottom once per user event.     *)
(* One step of the model is one such script run: the health gate, the      *)
(* handler of the widget that fired, its remote call and, where the        *)
(* handler ends in st.rerun(), the rerun that redraws the page.  The       *)
(* backend is the environment: its responses are inputs of the run.        *)
(*                                                                         *)
(* Python values: a dict is a record, a list is a sequence, None is the    *)
(* record None, a str is the record Str(s) of its text s (a sequence of    *)
(* chunks); a file path is the sequence of its characters.                 *)
(***************************************************************************)
EXTENDS Integers, Sequences, FiniteSets, TLC

VARIABLES
    messages,              \* st.session_state.messages
    repository,            \* st.session_state.repository
    documentation,         \* st.session_state.documentation
    conversation_history,  \* st.session_state.conversation_history
    widgets,               \* keys of the widgets the last script run drew
    health,                \* result of the most recent test_backend_connection()
    suggestions,           \* the list suggest_questions returned to the last run
    documented,            \* the body of the generate request whose answer is held in
                           \* documentation; None if it was not put there by one
    last                   \* log of the last script run: the health check's result,
                           \* the widget that fired, the text the user gave it, the
                           \* request sent, the response received, the session as
                           \* the run found it

vars == <<messages, repository, documentation, conversation_history,
          widgets, health, suggestions, documented, last>>

-----------------------------------------------------------------------------
(* Bounds *)

\* chat turns are accepted while the log is shorter than this
MaxMsgs == 2

\* the longest file listing suggest_questions is applied to on its own
MaxFiles == 3

-----------------------------------------------------------------------------
(* Python values *)

None == [tag |-> "None"]

Str(s) == [str |-> s]

\* truthiness of an Optional[str] or Optional[Dict] (no dict of the model is empty)
Truthy(v) == v # None /\ v # Str(<<>>)

\* truthiness of a list
NonEmpty(list) == list # <<>>

\* d.get(key) is truthy, for a flag stored under key
GetFlag(d, key) == key \in DOMAIN d /\ d[key] = TRUE

LowerMap ==
    [A |-> "a", B |-> "b", C |-> "c", D |-> "d", E |-> "e", F |-> "f", G |-> "g",
     H |-> "h", I |-> "i", J |-> "j", K |-> "k", L |-> "l", M |-> "m", N |-> "n",
     O |-> "o", P |-> "p", Q |-> "q", R |-> "r", S |-> "s", T |-> "t", U |-> "u",
     V |-> "v", W |-> "w", X |-> "x", Y |-> "y", Z |-> "z"]

\* str.lower()
lower(s) == [i \in 1..Len(s) |-> IF s[i] \in DOMAIN LowerMap THEN LowerMap[s[i]] ELSE s[i]]

\* keyword in s
Contains(s, keyword) ==
    \E i \in 1..(Len(s) - Len(keyword) + 1) :
        SubSeq(s, i, i + Len(keyword) - 1) = keyword

\* seq[:n]
Take(seq, n) == SubSeq(seq, 1, IF Len(seq) < n THEN Len(seq) ELSE n)

-----------------------------------------------------------------------------
(* The backend's answers: the environment of a script run *)

HTTP_OK == 200

\* a requests call either raises (connection refused, timeout, ...) or
\* returns a response with a status code and, when the body is JSON, its object
Raised == [exc |-> TRUE, status |-> 0, json |-> None]
Response(status, json) == [exc |-> FALSE, status |-> status, json |-> json]

\* file paths
MainPy == <<"m", "a", "i", "n", ".", "p", "y">>
UtilsPy == <<"u", "t", "i", "l", "s", ".", "p", "y">>
AppJs == <<"A", "P", "P", ".", "j", "s">>
ReadMe == <<"R", "E", "A", "D", "M", "E">>
ServerTs == <<"s", "r", "c", "/", "S", "e", "r", "v", "e", "r", ".", "t", "s">>
IndexHtml == <<"I", "n", "d", "e", "x", ".", "h", "t", "m", "l">>

Paths == { MainPy, UtilsPy, AppJs, ReadMe, ServerTs, IndexHtml }

\* the keys of documentation["json"]["files"], in the order the mapping yields them
FileListings ==
    { <<>>,
      <<MainPy, UtilsPy>>,
      <<UtilsPy>>,
      <<ReadMe, UtilsPy, AppJs, ServerTs>> }

Repo(owner, name) ==
    [owner |-> owner, name |-> name, defaultBranch |-> "main",
     url |-> Str(<<"https://github.com/", owner, "/", name>>),
     fileStructure |-> <<name>>]

Repositories == { Repo("octo", "demo"), Repo("octo", "other") }

\* the listings the backend documents in a session
SessionListings == { <<>>, <<MainPy, UtilsPy>> }

Documentations == { [json |-> [files |-> fl]] : fl \in SessionListings }

\* what the user can have typed into the repository URL field
RepoUrls == { Str(<<>>) } \cup { r.url : r \in Repositories }

\* what the user can submit through the chat input (never empty)
Prompts == { Str(<<"How does the parser work?">>) }

\* GET /health
HealthResponses == { Raised, Response(HTTP_OK, None), Response(500, None) }

\* POST /connect-repository with {"repoUrl": repo_url}
ConnectResponses(repo_url) ==
    { Raised, Response(500, None) }
    \cup { Response(HTTP_OK, [success |-> TRUE, repository |-> r]) :
              r \in { x \in Repositories : x.url = repo_url } }
    \cup { Response(HTTP_OK, [success |-> FALSE, error |-> "not found"]),
           Response(HTTP_OK, [error |-> "not found"]) }

\* POST /generate-documentation
GenerateResponses ==
    { Raised, Response(500, None) }
    \cup { Response(HTTP_OK, [success |-> TRUE, documentation |-> d]) : d \in Documentations }
    \cup { Response(HTTP_OK, [success |-> FALSE, error |-> "failed"]),
           Response(HTTP_OK, [error |-> "failed"]) }

\* POST /chat-about-repository
ChatResponses ==
    { Raised, Response(500, None),
      Response(HTTP_OK, [reply |-> Str(<<"It parses the repository.">>)]),
      Response(HTTP_OK, [reply |-> Str(<<>>)]),
      Response(HTTP_OK, [error |-> "no reply"]) }

-----------------------------------------------------------------------------
(* The HTTP wrappers *)

\* test_backend_connection(): True iff the health request answers 200
test_backend_connection(resp) == ~resp.exc /\ resp.status = HTTP_OK

\* connect_to_repository(repo_url): the JSON body of a 200 answer, else None
connect_to_repository(resp) ==
    IF ~resp.exc /\ resp.status = HTTP_OK THEN resp.json ELSE None

\* the body generate_documentation posts
generate_payload(repo) ==
    [owner |-> repo["owner"], repo |-> repo["name"],
     branch |-> repo["defaultBranch"], fileStructure |-> repo["fileStructure"]]

\* generate_documentation(repository): the JSON body of a 200 answer, else None
generate_documentation(resp) ==
    IF ~resp.exc /\ resp.status = HTTP_OK THEN resp.json ELSE None

\* the body chat_with_repository posts
chat_payload(message, repo, doc, history) ==
    [message |-> message, repository |-> repo,
     documentation |-> doc["json"], conversationHistory |-> history]

\* chat_with_repository(...): response.json()["reply"] of a 200 answer; None on
\* any other status and on any exception (a missing "reply" key included)
chat_with_repository(resp) ==
    IF ~resp.exc /\ resp.status = HTTP_OK /\ "reply" \in DOMAIN resp.json
    THEN resp.json["reply"]
    ELSE None

-----------------------------------------------------------------------------
(* suggest_questions *)

MaxSuggestions == 6

Keywords == { <<"m", "a", "i", "n">>, <<"i", "n", "d", "e", "x">>,
              <<"a", "p", "p">>, <<"s", "e", "r", "v", "e", "r">> }

\* mutant of IsMainFile: the path is not lower-cased before the keywords are sought
IsMainFile_CaseSensitive(f) == \E keyword \in Keywords : Contains(f, keyword)

\* any(keyword in f.lower() for keyword in ['main', 'index', 'app', 'server'])
IsMainFile(f) == \E keyword \in Keywords : Contains(lower(f), keyword)

\* [f for f in files if any(keyword in f.lower() for keyword in [...])]
RECURSIVE main_files(_)
main_files(files) ==
    IF files = <<>> THEN <<>>
    ELSE IF IsMainFile(Head(files)) THEN <<Head(files)>> \o main_files(Tail(files))
         ELSE main_files(Tail(files))

GenericNoDoc ==
    << Str(<<"What does this repository do?">>),
       Str(<<"How is the project structured?">>),
       Str(<<"What are the main files?">>) >>

GenericDoc ==
    << Str(<<"What does this repository do?">>),
       Str(<<"How do I get started with this project?">>),
       Str(<<"What are the main components?">>),
       Str(<<"How is the code organized?">>) >>

\* list(doc_data.get("files", {}).keys())
file_keys(doc_data) == IF "files" \in DOMAIN doc_data THEN doc_data["files"] ELSE <<>>

\* "What does f do?" for every f of files
RECURSIVE WhatDoesEach(_)
WhatDoesEach(files) ==
    IF files = <<>> THEN <<>>
    ELSE <<Str(<<"What does ">> \o Head(files) \o <<" do?">>)>> \o WhatDoesEach(Tail(files))

\* mutant of suggest_questions: one question for every main file, and no cap
suggest_questions_EveryMainFile(repo, doc) ==
    IF ~Truthy(doc) \/ ~("json" \in DOMAIN doc) THEN GenericNoDoc
    ELSE
        LET files == file_keys(doc["json"])
            s1 == GenericDoc \o WhatDoesEach(main_files(files))
        IN IF Len(files) > 1
           THEN Append(s1, Str(<<"Explain the ">> \o files[2] \o <<" file">>))
           ELSE s1

suggest_questions(repo, doc) ==
    IF ~Truthy(doc) \/ ~("json" \in DOMAIN doc) THEN GenericNoDoc
    ELSE
        LET files == file_keys(doc["json"])
            mains == main_files(files)
            s1 == IF files # <<>> /\ mains # <<>>
                  THEN Append(GenericDoc, Str(<<"What does ">> \o mains[1] \o <<" do?">>))
                  ELSE GenericDoc
            s2 == IF files # <<>> /\ Len(files) > 1
                  THEN Append(s1, Str(<<"Explain the ">> \o files[2] \o <<" file">>))
                  ELSE s1
        IN Take(s2, MaxSuggestions)

-----------------------------------------------------------------------------
(* The session and the handlers of the script *)

Session ==
    [repository |-> repository, documentation |-> documentation,
     messages |-> messages, conversation_history |-> conversation_history]

ConnectPath == "/connect-repository"
GeneratePath == "/generate-documentation"
ChatPath == "/chat-about-repository"

NoRequest == [path |-> "none"]
Request(path, json) == [path |-> path, json |-> json]

\* what a handler leaves behind: the session, the request it sent, whether it
\* ended the run with st.rerun()
Outcome(s, request, rerun) == [s |-> s, request |-> request, rerun |-> rerun]

SuggestionKeys ==
    <<"suggestion_0", "suggestion_1", "suggestion_2",
      "suggestion_3", "suggestion_4", "suggestion_5">>

\* mutant of OnConnect: the documentation of the previous repository is kept
OnConnect_KeepsDoc(s, repo_url, resp) ==
    IF Truthy(repo_url)
    THEN LET result == connect_to_repository(resp)
             request == Request(ConnectPath, [repoUrl |-> repo_url])
         IN IF Truthy(result) /\ GetFlag(result, "success")
            THEN Outcome([s EXCEPT !.repository = result["repository"]], request, TRUE)
            ELSE Outcome(s, request, FALSE)
    ELSE Outcome(s, NoRequest, FALSE)

\* mutant of OnConnect: the documentation is reset before the call is made
OnConnect_ResetFirst(s, repo_url, resp) ==
    IF Truthy(repo_url)
    THEN LET result == connect_to_repository(resp)
             request == Request(ConnectPath, [repoUrl |-> repo_url])
             reset == [s EXCEPT !.documentation = None]
         IN IF Truthy(result) /\ GetFlag(result, "success")
            THEN Outcome([reset EXCEPT !.repository = result["repository"]], request, TRUE)
            ELSE Outcome(reset, request, FALSE)
    ELSE Outcome(s, NoRequest, FALSE)

\* mutant of OnConnect: a connect that did not succeed forgets the repository
OnConnect_DropsRepoOnFailure(s, repo_url, resp) ==
    IF Truthy(repo_url)
    THEN LET result == connect_to_repository(resp)
             request == Request(ConnectPath, [repoUrl |-> repo_url])
         IN IF Truthy(result) /\ GetFlag(result, "success")
            THEN Outcome([s EXCEPT !.repository = result["repository"],
                                   !.documentation = None],
                         request, TRUE)
            ELSE Outcome([s EXCEPT !.repository = None], request, FALSE)
    ELSE Outcome(s, NoRequest, FALSE)

\* mutant of OnConnect: any 200 answer is taken, its success flag is not looked at
OnConnect_IgnoresSuccess(s, repo_url, resp) ==
    IF Truthy(repo_url)
    THEN LET result == connect_to_repository(resp)
             request == Request(ConnectPath, [repoUrl |-> repo_url])
         IN IF Truthy(result)
            THEN Outcome([s EXCEPT !.repository = IF "repository" \in DOMAIN result
                                                  THEN result["repository"] ELSE None,
                                   !.documentation = None],
                         request, TRUE)
            ELSE Outcome(s, request, FALSE)
    ELSE Outcome(s, NoRequest, FALSE)

\* mutant of OnConnect: the URL is posted without the check that it is not empty
OnConnect_NoValidation(s, repo_url, resp) ==
    LET result == connect_to_repository(resp)
        request == Request(ConnectPath, [repoUrl |-> repo_url])
    IN IF Truthy(result) /\ GetFlag(result, "success")
       THEN Outcome([s EXCEPT !.repository = result["repository"],
                              !.documentation = None],
                    request, TRUE)
       ELSE Outcome(s, request, FALSE)

\* "Connect to Repository" button
OnConnect(s, repo_url, resp) ==
    IF Truthy(repo_url)
    THEN LET result == connect_to_repository(resp)
             request == Request(ConnectPath, [repoUrl |-> repo_url])
         IN IF Truthy(result) /\ GetFlag(result, "success")
            THEN Outcome([s EXCEPT !.repository = result["repository"],
                                   !.documentation = None],
                         request, TRUE)
            ELSE Outcome(s, request, FALSE)
    ELSE Outcome(s, NoRequest, FALSE)

\* mutant of OnGenerate: a generation that did not succeed disconnects the repository
OnGenerate_DropsRepoOnFailure(s, resp) ==
    LET doc_result == generate_documentation(resp)
        request == Request(GeneratePath, generate_payload(s.repository))
    IN IF Truthy(doc_result) /\ GetFlag(doc_result, "success")
       THEN Outcome([s EXCEPT !.documentation = doc_result["documentation"]],
                    request, TRUE)
       ELSE Outcome([s EXCEPT !.repository = None], request, FALSE)

\* "Generate Documentation" button
OnGenerate(s, resp) ==
    LET doc_result == generate_documentation(resp)
        request == Request(GeneratePath, generate_payload(s.repository))
    IN IF Truthy(doc_result) /\ GetFlag(doc_result, "success")
       THEN Outcome([s EXCEPT !.documentation = doc_result["documentation"]],
                    request, TRUE)
       ELSE Outcome(s, request, FALSE)

\* mutant of ChatTurn: the blob sent with the call replaces the session's documentation
ChatTurn_UnwrapsDoc(s, text, resp) ==
    LET user_message == [role |-> "user", content |-> text]
        asked == [s EXCEPT !.messages = Append(@, user_message),
                           !.conversation_history = Append(@, user_message),
                           !.documentation = @["json"]]
        request == Request(ChatPath,
                           chat_payload(text, s.repository, s.documentation,
                                        asked.conversation_history))
        response == chat_with_repository(resp)
        assistant_message == [role |-> "assistant", content |-> response]
    IN [s |-> IF Truthy(response)
              THEN [asked EXCEPT !.messages = Append(@, assistant_message),
                                 !.conversation_history = Append(@, assistant_message)]
              ELSE asked,
        request |-> request]

\* mutant of ChatTurn: the call is made with the history as it was before the
\* user turn was appended
ChatTurn_SendsOldHistory(s, text, resp) ==
    LET user_message == [role |-> "user", content |-> text]
        asked == [s EXCEPT !.messages = Append(@, user_message),
                           !.conversation_history = Append(@, user_message)]
        request == Request(ChatPath,
                           chat_payload(text, s.repository, s.documentation,
                                        s.conversation_history))
        response == chat_with_repository(resp)
        assistant_message == [role |-> "assistant", content |-> response]
    IN [s |-> IF Truthy(response)
              THEN [asked EXCEPT !.messages = Append(@, assistant_message),
                                 !.conversation_history = Append(@, assistant_message)]
              ELSE asked,
        request |-> request]

\* the user turn is appended to both logs, the chat call is made with the
\* history so extended, the assistant turn is appended if the reply is truthy
ChatTurn(s, text, resp) ==
    LET user_message == [role |-> "user", content |-> text]
        asked == [s EXCEPT !.messages = Append(@, user_message),
                           !.conversation_history = Append(@, user_message)]
        request == Request(ChatPath,
                           chat_payload(text, asked.repository, asked.documentation,
                                        asked.conversation_history))
        response == chat_with_repository(resp)
        assistant_message == [role |-> "assistant", content |-> response]
    IN [s |-> IF Truthy(response)
              THEN [asked EXCEPT !.messages = Append(@, assistant_message),
                                 !.conversation_history = Append(@, assistant_message)]
              ELSE asked,
        request |-> request]

\* a suggested-question button: a chat turn, then st.rerun()
OnSuggestion(s, suggestion, resp) ==
    LET turn == ChatTurn(s, suggestion, resp)
    IN Outcome(turn.s, turn.request, TRUE)

\* the chat input: a chat turn, the run goes on to the end of the script
OnChatInput(s, prompt, resp) ==
    LET turn == ChatTurn(s, prompt, resp)
    IN Outcome(turn.s, turn.request, FALSE)

\* mutant of clearChat: the conversation history is left as it was
clearChat_MessagesOnly(s) == [s EXCEPT !.messages = <<>>]

\* mutant of clearChat: the documentation is reset along with the chat
clearChat_ResetsDoc(s) ==
    [s EXCEPT !.messages = <<>>, !.conversation_history = <<>>, !.documentation = None]

\* mutant of clearChat: only the last turn is removed
clearChat_DropsLastTurn(s) ==
    [s EXCEPT !.messages = SubSeq(@, 1, Len(@) - 1),
              !.conversation_history = SubSeq(@, 1, Len(@) - 1)]

\* "Clear Chat" button
clearChat(s) == [s EXCEPT !.messages = <<>>, !.conversation_history = <<>>]

OnClear(s) == Outcome(clearChat(s), NoRequest, TRUE)

\* mutant of Render: the chat interface is drawn as soon as a repository is connected
Render_ChatWithoutDoc(ok, s) ==
    IF ~ok THEN {}
    ELSE {"repo_url", "connect"}
         \cup (IF Truthy(s.repository) /\ ~Truthy(s.documentation)
               THEN {"generate"} ELSE {})
         \cup (IF Truthy(s.repository)
               THEN { SuggestionKeys[i] :
                        i \in 1..Len(suggest_questions(s.repository, s.documentation)) }
                    \cup {"chat_input"}
                    \cup (IF NonEmpty(s.messages) THEN {"clear"} ELSE {})
               ELSE {})

\* the widgets a script run draws for session s when the health check gave ok
Render(ok, s) ==
    IF ~ok THEN {}
    ELSE {"repo_url", "connect"}
         \cup (IF Truthy(s.repository) /\ ~Truthy(s.documentation)
               THEN {"generate"} ELSE {})
         \cup (IF Truthy(s.repository) /\ Truthy(s.documentation)
               THEN { SuggestionKeys[i] :
                        i \in 1..Len(suggest_questions(s.repository, s.documentation)) }
                    \cup {"chat_input"}
                    \cup (IF NonEmpty(s.messages) THEN {"clear"} ELSE {})
               ELSE {})

\* the list the "Suggested Questions" expander of that run was filled from; the
\* empty list if the run did not get there
Suggested(ok, s) ==
    IF ok /\ Truthy(s.repository) /\ Truthy(s.documentation)
    THEN suggest_questions(s.repository, s.documentation)
    ELSE <<>>

-----------------------------------------------------------------------------
(* Script runs *)

NoRun == [gate |-> FALSE, event |-> "none", input |-> None, request |-> NoRequest,
          response |-> None, before |-> Session]

Init ==
    /\ messages = <<>>
    /\ repository = None
    /\ documentation = None
    /\ conversation_history = <<>>
    /\ widgets = {}
    /\ health = FALSE
    /\ suggestions = <<>>
    /\ documented = None
    /\ last = NoRun

\* mutant of GateOpen: st.stop() is missing, the script goes on after a failed check
GateOpen_NoStop(hr) == TRUE

\* the sidebar's gate: the script goes on only if the health check passed,
\* otherwise st.stop() ends the run
GateOpen(hr) == test_backend_connection(hr)

\* the handler of widget `event` ran with outcome `out`; after st.rerun() the
\* script runs once more, with a health check of its own, and redraws the page
Finish(out, hr, event, input, resp) ==
    /\ repository' = out.s.repository
    /\ documentation' = out.s.documentation
    /\ messages' = out.s.messages
    /\ conversation_history' = out.s.conversation_history
    /\ IF out.rerun
       THEN \E hr2 \in HealthResponses : health' = test_backend_connection(hr2)
       ELSE health' = test_backend_connection(hr)
    /\ widgets' = Render(health', out.s)
    /\ suggestions' = Suggested(health', out.s)
    /\ documented' = IF out.s.documentation = documentation THEN documented
                     ELSE IF out.request.path = GeneratePath THEN out.request.json
                     ELSE None
    /\ last' = [gate |-> test_backend_connection(hr), event |-> event, input |-> input,
                request |-> out.request, response |-> resp, before |-> Session]

\* the health check fails: st.stop() ends the run before any widget is drawn,
\* whatever widget the user had acted on
RunStopped ==
    \E hr \in HealthResponses, event \in widgets \cup {"none"} :
        /\ ~GateOpen(hr)
        /\ health' = test_backend_connection(hr)
        /\ widgets' = Render(FALSE, Session)
        /\ suggestions' = Suggested(FALSE, Session)
        /\ documented' = documented
        /\ last' = [gate |-> test_backend_connection(hr), event |-> event, input |-> None,
                    request |-> NoRequest, response |-> None, before |-> Session]
        /\ UNCHANGED <<messages, repository, documentation, conversation_history>>

\* a run in which no button or chat input fired (page load, text edited)
RunIdle ==
    \E hr \in HealthResponses, event \in (widgets \cap {"repo_url"}) \cup {"none"} :
        /\ GateOpen(hr)
        /\ Finish(Outcome(Session, NoRequest, FALSE), hr, event, None, None)

ConnectClick ==
    \E hr \in HealthResponses, repo_url \in RepoUrls :
        \E resp \in ConnectResponses(repo_url) :
            /\ "connect" \in widgets
            /\ GateOpen(hr)
            /\ Finish(OnConnect(Session, repo_url, resp), hr, "connect", repo_url,
                      IF Truthy(repo_url) THEN resp ELSE None)

GenerateClick ==
    \E hr \in HealthResponses, resp \in GenerateResponses :
        /\ "generate" \in widgets
        /\ GateOpen(hr)
        /\ Truthy(repository)
        /\ ~Truthy(documentation)
        /\ Finish(OnGenerate(Session, resp), hr, "generate", None, resp)

SuggestionClick ==
    \E hr \in HealthResponses, i \in 1..MaxSuggestions, resp \in ChatResponses :
        /\ SuggestionKeys[i] \in widgets
        /\ GateOpen(hr)
        /\ Truthy(repository)
        /\ Truthy(documentation)
        /\ i <= Len(suggest_questions(repository, documentation))
        /\ Len(messages) < MaxMsgs
        /\ Finish(OnSuggestion(Session, suggest_questions(repository, documentation)[i], resp),
                  hr, SuggestionKeys[i],
                  suggest_questions(repository, documentation)[i], resp)

ChatInput ==
    \E hr \in HealthResponses, prompt \in Prompts, resp \in ChatResponses :
        /\ "chat_input" \in widgets
        /\ GateOpen(hr)
        /\ Truthy(repository)
        /\ Truthy(documentation)
        /\ Len(messages) < MaxMsgs
        /\ Finish(OnChatInput(Session, prompt, resp), hr, "chat_input", prompt, resp)

ClearClick ==
    \E hr \in HealthResponses :
        /\ "clear" \in widgets
        /\ GateOpen(hr)
        /\ Truthy(repository)
        /\ Truthy(documentation)
        /\ NonEmpty(messages)
        /\ Finish(OnClear(Session), hr, "clear", None, None)

Next ==
    \/ RunStopped
    \/ RunIdle
    \/ ConnectClick
    \/ GenerateClick
    \/ SuggestionClick
    \/ ChatInput
    \/ ClearClick

Spec == Init /\ [][Next]_vars

-----------------------------------------------------------------------------
(* suggest_questions on its own: applied once to a repository and a          *)
(* documentation value drawn from all the shapes the function tells apart    *)

\* the listings of at most MaxFiles distinct paths
Listings ==
    { fl \in UNION { [1..k -> Paths] : k \in 0..MaxFiles } :
        \A i, j \in 1..Len(fl) : i # j => fl[i] # fl[j] }

\* None, a documentation without "json", one whose "json" has no "files", and
\* one for every listing
SuggestInputs ==
    { None, [markdown |-> "# demo"], [json |-> [summary |-> "A demo"]] }
    \cup { [json |-> [files |-> fl]] : fl \in Listings \cup FileListings }

InitSuggest ==
    /\ messages = <<>>
    /\ conversation_history = <<>>
    /\ repository \in {None} \cup Repositories
    /\ documentation \in SuggestInputs
    /\ widgets = {}
    /\ health = FALSE
    /\ suggestions = <<>>
    /\ documented = None
    /\ last = NoRun

CallSuggest ==
    /\ last.event = "none"
    /\ suggestions' = suggest_questions(repository, documentation)
    /\ last' = [last EXCEPT !.event = "suggest_questions"]
    /\ UNCHANGED <<messages, repository, documentation, conversation_history,
                   widgets, health, documented>>

NextSuggest == CallSuggest

SpecSuggest == InitSuggest /\ [][NextSuggest]_vars

-----------------------------------------------------------------------------
(* Properties *)

\* the chat operation can be started from the page as drawn
ChatReachable ==
    "chat_input" \in widgets \/ \E i \in 1..MaxSuggestions : SuggestionKeys[i] \in widgets

\* the call of the last run raised or was answered with a status other than 200
CallFailed == last.response.exc \/ last.response.status # HTTP_OK

\* the last run sent a connect request, answered 200 with success set
ConnectSucceeded ==
    /\ last.request.path = ConnectPath
    /\ ~CallFailed
    /\ GetFlag(last.response.json, "success")

\* the last run sent a chat request
ChatRan == last.request.path = ChatPath

\* ... and it was answered 200 with a reply
ChatSucceeded == ChatRan /\ ~CallFailed /\ "reply" \in DOMAIN last.response.json

\* the last run passed the gate and handled a click on "Clear Chat"
ClearRan == last.gate /\ last.event = "clear"

\* C1 (as stated): in every state, chat is reachable iff repository and
\* documentation are both set.
C1_Original ==
    ChatReachable <=> (repository # None /\ documentation # None)

\* C1 (amended): in every state, chat is reachable iff the most recent health
\* check passed and repository and documentation are both set.
C1_ChatReachableIffGateAndBothSet ==
    ChatReachable <=> (health /\ repository # None /\ documentation # None)

C1_Witness ==
    /\ ChatReachable
    /\ "chat_input" \in widgets
    /\ repository # None
    /\ documentation # None

\* C2: after a successful connect the documentation is None and the repository
\* is the one the backend returned for the URL, whatever the session held before.
C2_ConnectResetsDocumentation ==
    ConnectSucceeded =>
        /\ documentation = None
        /\ repository = last.response.json["repository"]
        /\ repository.url = last.request.json.repoUrl

\* connect(A); generate(); connect(B)
C2_Witness ==
    /\ ConnectSucceeded
    /\ last.before.documentation # None
    /\ last.before.repository # None
    /\ last.before.repository # repository

\* C3 (as stated): a chat action started with logs of length n leaves both at
\* n+2 if the call was answered 200 with a reply, and at n+1 if it failed.
C3_Original ==
    ChatRan =>
        LET n == Len(last.before.messages)
            m == IF ChatSucceeded THEN n + 2 ELSE n + 1
        IN /\ Len(last.before.conversation_history) = n
           /\ Len(messages) = m
           /\ Len(conversation_history) = m

\* C4 (as stated): after a successful connect the documentation is None and the
\* message log and conversation history of the previous repository are gone.
C4_Original ==
    ConnectSucceeded =>
        /\ documentation = None
        /\ messages = <<>>
        /\ conversation_history = <<>>

\* C5: a connect or generate call that raised or was answered with a status
\* other than 200 leaves the four session fields as the run found them.
C5_FailedCallLeavesSession ==
    (last.request.path \in {ConnectPath, GeneratePath} /\ CallFailed) =>
        Session = last.before

C5_Witness ==
    /\ last.request.path = ConnectPath
    /\ CallFailed
    /\ last.before.documentation # None
    /\ Session = last.before

\* C6: messages and conversation_history are the same sequence in every state.
C6_LogsMatch == messages = conversation_history

C6_Witness ==
    /\ Len(messages) >= 2
    /\ messages[Len(messages)].role = "assistant"
    /\ messages = conversation_history

\* C7: a run whose health check returned false sent no request and left every
\* session field as it found it.
C7_FailedGateDoesNothing ==
    ~last.gate =>
        /\ last.request = NoRequest
        /\ Session = last.before

\* the user clicked "Connect to Repository" with no repository connected, and
\* the health check of that run failed
C7_Witness ==
    /\ ~last.gate
    /\ last.event = "connect"
    /\ repository = None
    /\ widgets = {}

\* C8: a chat call, however it ends, leaves repository and documentation as the
\* run found them.
C8_ChatKeepsRepositoryAndDocumentation ==
    ChatRan =>
        /\ repository = last.before.repository
        /\ documentation = last.before.documentation

\* the chat call timed out
C8_Witness ==
    /\ ChatRan
    /\ last.response.exc
    /\ documentation # None

\* C9: Clear Chat empties messages and conversation_history and leaves
\* repository and documentation as the run found them.
C9_ClearEmptiesLogsOnly ==
    ClearRan =>
        /\ messages = <<>>
        /\ conversation_history = <<>>
        /\ repository = last.before.repository
        /\ documentation = last.before.documentation

C9_Witness ==
    /\ ClearRan
    /\ Len(last.before.messages) >= 2
    /\ documentation # None

\* C10: clearing twice gives the state clearing once gives: applied to the
\* session a Clear Chat run left, clearChat changes nothing, and applied twice
\* to the session that run found, it gives what it gives applied once.
C10_ClearIdempotent ==
    ClearRan =>
        /\ clearChat(Session) = Session
        /\ clearChat(clearChat(last.before)) = clearChat(last.before)

C10_Witness ==
    /\ ClearRan
    /\ last.before.messages # <<>>
    /\ clearChat(last.before) = Session

\* C11: a click on "Connect to Repository" with an empty URL sends no request
\* and leaves every session field as the run found it.
C11_EmptyUrlRejectedLocally ==
    (last.gate /\ last.event = "connect" /\ last.input = Str(<<>>)) =>
        /\ last.request = NoRequest
        /\ Session = last.before

\* the empty URL was submitted with a repository and its documentation in place
C11_Witness ==
    /\ last.gate
    /\ last.event = "connect"
    /\ last.input = Str(<<>>)
    /\ last.before.documentation # None
    /\ last.request = NoRequest

\* suggest_questions has been applied to repository and documentation
SuggestApplied == last.event = "suggest_questions"

\* C12: suggest_questions returns at most 6 items for any input, and exactly
\* the three generic questions when documentation is None.
C12_AtMostSixAndGenericWithoutDoc ==
    SuggestApplied =>
        /\ Len(suggestions) <= 6
        /\ documentation = None =>
              suggestions = << Str(<<"What does this repository do?">>),
                               Str(<<"How is the project structured?">>),
                               Str(<<"What are the main files?">>) >>

\* applied to a listing with three main files, and applied to None
C12_Witness ==
    /\ SuggestApplied
    /\ \/ documentation = [json |-> [files |-> <<MainPy, AppJs, ServerTs>>]]
       \/ documentation = None /\ Len(suggestions) = 3

\* what C13 describes for a file listing: the four generic questions, then a
\* question about the first file whose lower-cased path contains a keyword (if
\* there is one), then a question about the second file (if there are two)
C13_Described(files) ==
    LET mainIdx == { i \in 1..Len(files) :
                       \E keyword \in Keywords : Contains(lower(files[i]), keyword) }
        first == CHOOSE i \in mainIdx : \A j \in mainIdx : i <= j
    IN << Str(<<"What does this repository do?">>),
          Str(<<"How do I get started with this project?">>),
          Str(<<"What are the main components?">>),
          Str(<<"How is the code organized?">>) >>
       \o (IF mainIdx # {}
           THEN << Str(<<"What does ">> \o files[first] \o <<" do?">>) >> ELSE <<>>)
       \o (IF Len(files) >= 2
           THEN << Str(<<"Explain the ">> \o files[2] \o <<" file">>) >> ELSE <<>>)

\* the listing of a documentation value; empty if it has none
C13_ListingOf(doc) ==
    IF "json" \in DOMAIN doc /\ "files" \in DOMAIN doc["json"]
    THEN doc["json"]["files"] ELSE <<>>

\* for files [main.py, utils.py]: six entries, one about each file
C13_Example ==
    documentation = [json |-> [files |-> <<MainPy, UtilsPy>>]] =>
        /\ Len(suggestions) = 6
        /\ suggestions[5] = Str(<<"What does ", "m", "a", "i", "n", ".", "p", "y", " do?">>)
        /\ suggestions[6] =
              Str(<<"Explain the ", "u", "t", "i", "l", "s", ".", "p", "y", " file">>)

\* C13 (as stated): whenever documentation is present, suggest_questions
\* returns the list C13 describes for its file listing.
C13_Original ==
    (SuggestApplied /\ documentation # None) =>
        /\ suggestions = C13_Described(C13_ListingOf(documentation))
        /\ C13_Example

\* C13 (amended): whenever documentation is present and has a "json" entry,
\* suggest_questions returns the list C13 describes for its file listing.
C13_DescribedListWithJson ==
    (SuggestApplied /\ documentation # None /\ "json" \in DOMAIN documentation) =>
        /\ suggestions = C13_Described(C13_ListingOf(documentation))
        /\ C13_Example

\* the main file is neither first nor lower-case, the second file is another one
C13_Witness ==
    /\ SuggestApplied
    /\ documentation = [json |-> [files |-> <<ReadMe, UtilsPy, AppJs>>]]
    /\ Len(suggestions) = 6
    /\ suggestions[5] = Str(<<"What does ", "A", "P", "P", ".", "j", "s", " do?">>)

\* C14: in every state, documentation being set implies repository being set.
C14_DocumentationNeedsRepository ==
    documentation # None => repository # None

\* documentation just generated, and documentation kept through a failed connect
C14_Witness ==
    /\ documentation # None
    /\ repository # None
    /\ last.request.path = ConnectPath
    /\ CallFailed

\* the last run sent a connect or generate request that was not answered 200
\* with success set
SetupNotDone(path) ==
    /\ last.request.path = path
    /\ CallFailed \/ ~GetFlag(last.response.json, "success")

\* C16: after a connect, generate or chat call that failed, and with the most
\* recent health check passed, the widget of the same operation is on the page.
C16_FailedOperationStaysEnabled ==
    health =>
        /\ SetupNotDone(ConnectPath) => "connect" \in widgets
        /\ SetupNotDone(GeneratePath) => "generate" \in widgets
        /\ (ChatRan /\ ~ChatSucceeded) => last.event \in widgets

\* a generate call timed out, and a suggested question was not answered
C16_Witness ==
    /\ health
    /\ \/ SetupNotDone(GeneratePath) /\ last.response.exc
       \/ ChatRan /\ CallFailed /\ last.event = "suggestion_5"

\* C17: the history sent with a chat call is the history the run found, followed
\* by the user message being asked; nothing of the earlier turns is left out.
C17_HistorySentEndsWithQuestion ==
    ChatRan =>
        LET sent == last.request.json.conversationHistory
        IN /\ sent = Append(last.before.conversation_history,
                            [role |-> "user", content |-> last.input])
           /\ last.request.json.message = last.input

\* the run found the user turn of a failed call last in the history
C17_Witness ==
    /\ ChatRan
    /\ last.before.conversation_history # <<>>
    /\ last.before.conversation_history[Len(last.before.conversation_history)].role = "user"
    /\ Len(last.request.json.conversationHistory) = 2

\* C18: whenever documentation is set, it is the answer to a generate request
\* made for the repository the session holds.
C18_DocumentationOfCurrentRepository ==
    documentation # None =>
        /\ documented # None
        /\ repository # None
        /\ documented.owner = repository["owner"]
        /\ documented.repo = repository["name"]
        /\ documented.branch = repository["defaultBranch"]

\* documentation generated for the second repository connected in the session
C18_Witness ==
    /\ documentation # None
    /\ last.event = "generate"
    /\ last.before.messages # <<>>
    /\ documented = generate_payload(repository)

\* the log is empty or starts with a user message, and every assistant message
\* comes right after a user message
WellFormedLog ==
    /\ messages # <<>> => messages[1].role = "user"
    /\ \A i \in 1..Len(messages) :
          messages[i].role = "assistant" => (i > 1 /\ messages[i - 1].role = "user")

\* C19 (as stated): the log is well formed, and a user message is left without
\* an answer (so that the next one follows it directly) only by a chat call
\* that failed.
C19_Original ==
    /\ WellFormedLog
    /\ (ChatRan /\ messages[Len(messages)].role = "user") => ~ChatSucceeded

\* C20: a connect or generate call answered 200 with a false or missing success
\* flag leaves the four session fields as the run found them.
C20_NoSuccessFlagLeavesSession ==
    (/\ last.request.path \in {ConnectPath, GeneratePath}
     /\ ~CallFailed
     /\ ~GetFlag(last.response.json, "success")) =>
        Session = last.before

\* a connect answered 200 without the flag while a documentation was held
C20_Witness ==
    /\ last.request.path = ConnectPath
    /\ ~CallFailed
    /\ "success" \notin DOMAIN last.response.json
    /\ last.before.documentation # None
    /\ documentation # None

====
